---- MODULE Spec2Model ----
(***************************************************************************)
(* Model of star.c: the shooting-stars grid, the reference counted path,   *)
(* the doubly linked frontier queue and the breadth-first solver.          *)
(***************************************************************************)
EXTENDS Integers, Sequences, FiniteSets, TLC

VARIABLES
  pc,            \* position of play / shortest_winning_path
  initial,       \* the Grid handed to play
  visited,       \* indices of the visited table that hold true
  to_visit,      \* the Queue pointer: NULL or QUEUE
  queue,         \* the Queue struct: [first, last]
  qnodes,        \* heap of QueueNode: address -> [path, grid, next, prev, freed]
  paths,         \* heap of Path: address -> [references, move, rest, freed]
  node,          \* the QueueNode pointer held by the loop
  winning_path,  \* the Path pointer captured as the result
  i,             \* the cell counter of the expansion loop
  new_grid,      \* the last grid computed by the expansion loop
  failsLeft,     \* how many allocations may still fail in this run
  output,        \* what play printed
  pushedLog,     \* grids inserted into the queue, in order (queue scenario)
  poppedLog,     \* grids returned by pop_back, in order (queue scenario)
  tgrids,        \* grid scenario: the grids obtained so far, oldest first
  tcells,        \* grid scenario: the cells exploded so far
  toutcome       \* grid scenario: classification of the last grid

vars == <<pc, initial, visited, to_visit, queue, qnodes, paths, node,
          winning_path, i, new_grid, failsLeft, output, pushedLog, poppedLog,
          tgrids, tcells, toutcome>>

searchVars == <<pc, initial, visited, to_visit, queue, qnodes, paths, node,
                winning_path, i, new_grid, failsLeft, output>>
logVars == <<pushedLog, poppedLog>>
gridVars == <<tgrids, tcells, toutcome>>

(***************************************************************************)
(* Bounds of the model.                                                    *)
(***************************************************************************)
MaxDist == 3      \* initial grids of the search: at most this far from a win
MaxCell == 10     \* grid scenario: cells 0..MaxCell are tried
MaxApply == 2     \* grid scenario: explode calls per run
MaxQueueOps == 5  \* queue scenario: push_front calls per run
MaxQueueGrid == 2 \* queue scenario: grids 0..MaxQueueGrid are pushed

NULL == 0
QUEUE == 1

(***************************************************************************)
(* uint16_t arithmetic.                                                    *)
(***************************************************************************)
\* bitwise operators on uint16_t values, least significant bit first; the
\* result never has a bit that neither operand has, so it stays in 16 bits
RECURSIVE BitXor(_, _)
BitXor(a, b) ==
  IF a = 0 THEN b
  ELSE IF b = 0 THEN a
  ELSE ((a + b) % 2) + 2 * BitXor(a \div 2, b \div 2)

RECURSIVE BitAnd(_, _)
BitAnd(a, b) ==
  IF a = 0 \/ b = 0 THEN 0
  ELSE ((a % 2) * (b % 2)) + 2 * BitAnd(a \div 2, b \div 2)

(***************************************************************************)
(* Game grids.                                                             *)
(***************************************************************************)
empty_grid == 0
winning_grid == 495
error_grid == 65535

cell1 == 256
cell2 == 128
cell3 == 64
cell4 == 32
cell5 == 16
cell6 == 8
cell7 == 4
cell8 == 2
cell9 == 1

Grids == 0 .. 511
Cells == 1 .. 9

is_star(grid, cell) ==
  CASE cell = 1 -> BitAnd(cell1, grid) # 0
    [] cell = 2 -> BitAnd(cell2, grid) # 0
    [] cell = 3 -> BitAnd(cell3, grid) # 0
    [] cell = 4 -> BitAnd(cell4, grid) # 0
    [] cell = 5 -> BitAnd(cell5, grid) # 0
    [] cell = 6 -> BitAnd(cell6, grid) # 0
    [] cell = 7 -> BitAnd(cell7, grid) # 0
    [] cell = 8 -> BitAnd(cell8, grid) # 0
    [] cell = 9 -> BitAnd(cell9, grid) # 0
    [] OTHER -> FALSE

\* explode with the centre missing from the pattern of cell 1
explode_corner3(grid, cell) ==
  IF ~is_star(grid, cell) THEN grid
  ELSE CASE cell = 1 -> BitXor(416, grid)
         [] cell = 2 -> BitXor(448, grid)
         [] cell = 3 -> BitXor(216, grid)
         [] cell = 4 -> BitXor(292, grid)
         [] cell = 5 -> BitXor(186, grid)
         [] cell = 6 -> BitXor(73, grid)
         [] cell = 7 -> BitXor(54, grid)
         [] cell = 8 -> BitXor(7, grid)
         [] cell = 9 -> BitXor(27, grid)
         [] OTHER -> grid

\* explode with cell 9 itself missing from the pattern of cell 9
explode_keeps9(grid, cell) ==
  IF ~is_star(grid, cell) THEN grid
  ELSE CASE cell = 1 -> BitXor(432, grid)
         [] cell = 2 -> BitXor(448, grid)
         [] cell = 3 -> BitXor(216, grid)
         [] cell = 4 -> BitXor(292, grid)
         [] cell = 5 -> BitXor(186, grid)
         [] cell = 6 -> BitXor(73, grid)
         [] cell = 7 -> BitXor(54, grid)
         [] cell = 8 -> BitXor(7, grid)
         [] cell = 9 -> BitXor(26, grid)
         [] OTHER -> grid

\* explode with the pattern of cell 2 written one bit too far to the left
explode_shifted2(grid, cell) ==
  IF ~is_star(grid, cell) THEN grid
  ELSE CASE cell = 1 -> BitXor(432, grid)
         [] cell = 2 -> BitXor(896, grid)
         [] cell = 3 -> BitXor(216, grid)
         [] cell = 4 -> BitXor(292, grid)
         [] cell = 5 -> BitXor(186, grid)
         [] cell = 6 -> BitXor(73, grid)
         [] cell = 7 -> BitXor(54, grid)
         [] cell = 8 -> BitXor(7, grid)
         [] cell = 9 -> BitXor(27, grid)
         [] OTHER -> grid

explode(grid, cell) ==
  IF ~is_star(grid, cell) THEN grid
  ELSE CASE cell = 1 -> BitXor(432, grid)
         [] cell = 2 -> BitXor(448, grid)
         [] cell = 3 -> BitXor(216, grid)
         [] cell = 4 -> BitXor(292, grid)
         [] cell = 5 -> BitXor(186, grid)
         [] cell = 6 -> BitXor(73, grid)
         [] cell = 7 -> BitXor(54, grid)
         [] cell = 8 -> BitXor(7, grid)
         [] cell = 9 -> BitXor(27, grid)
         [] OTHER -> grid

\* outcome with the two terminal grids exchanged
outcome_swapped(grid) ==
  IF grid = empty_grid THEN "Won"
  ELSE IF grid = winning_grid THEN "Lost"
  ELSE "Continue"

outcome(grid) ==
  IF grid = empty_grid THEN "Lost"
  ELSE IF grid = winning_grid THEN "Won"
  ELSE "Continue"


(***************************************************************************)
(* Allocation: malloc and calloc may fail while failsLeft is positive.     *)
(***************************************************************************)
MaxFail == 1      \* queue scenario: allocations that may fail in one run

AllocOutcomes(budget) == IF budget > 0 THEN {TRUE, FALSE} ELSE {TRUE}

Cost(ok) == IF ok THEN 0 ELSE 1

(***************************************************************************)
(* Paths: a heap of reference counted nodes; address 0 is the empty path.  *)
(***************************************************************************)
new_path == NULL

\* drop_reference_to_path that frees a node without dropping its rest
drop_reference_to_path_no_cascade(ps, path) ==
  IF path = NULL THEN ps
  ELSE LET dec == [ps EXCEPT ![path].references = @ - 1]
       IN IF dec[path].references = 0
          THEN [dec EXCEPT ![path].freed = TRUE]
          ELSE dec

RECURSIVE drop_reference_to_path(_, _)
drop_reference_to_path(ps, path) ==
  IF path = NULL THEN ps
  ELSE LET dec == [ps EXCEPT ![path].references = @ - 1]
       IN IF dec[path].references = 0
          THEN [drop_reference_to_path(dec, dec[path].rest)
                  EXCEPT ![path].freed = TRUE]
          ELSE dec

\* inc_reference_to_path that leaves the count as it is
inc_reference_to_path_noop(ps, path) == ps

inc_reference_to_path(ps, path) ==
  IF path # NULL THEN [ps EXCEPT ![path].references = @ + 1] ELSE ps

\* add_move_to_path that does not link the new node to the rest of the path
add_move_to_path_unlinked(ps, path, move, ok) ==
  IF ~ok THEN [ret |-> NULL, paths |-> ps]
  ELSE LET fresh == [references |-> 1, move |-> move, rest |-> NULL,
                     freed |-> FALSE]
       IN [ret |-> Len(ps) + 1, paths |-> Append(ps, fresh)]

\* result: the returned pointer and the heap after the call
add_move_to_path(ps, path, move, ok) ==
  IF ~ok THEN [ret |-> NULL, paths |-> ps]
  ELSE LET fresh == [references |-> 1, move |-> move, rest |-> path,
                     freed |-> FALSE]
       IN [ret |-> Len(ps) + 1,
           paths |-> inc_reference_to_path(Append(ps, fresh), path)]

(***************************************************************************)
(* The double ended queue.                                                 *)
(***************************************************************************)
EmptyQueue == [first |-> NULL, last |-> NULL]

\* result: the returned pointer (tv) and the Queue struct after the call
new_queue(ok) ==
  IF ok THEN [ret |-> QUEUE, queue |-> EmptyQueue]
  ELSE [ret |-> NULL, queue |-> EmptyQueue]

\* pop_back that takes the node at the front of the queue
pop_back_front(tv, q, qn) ==
  IF tv = NULL THEN [ret |-> NULL, queue |-> q]
  ELSE LET firstNode == q.first
       IN IF firstNode # NULL
          THEN LET newFirst == qn[firstNode].next
               IN [ret |-> firstNode,
                   queue |-> [first |-> newFirst,
                              last |-> IF newFirst = NULL THEN NULL
                                       ELSE q.last]]
          ELSE [ret |-> firstNode, queue |-> q]

\* pop_back that leaves first untouched when the queue becomes empty
pop_back_keeps_first(tv, q, qn) ==
  IF tv = NULL THEN [ret |-> NULL, queue |-> q]
  ELSE LET lastNode == q.last
       IN IF lastNode # NULL
          THEN [ret |-> lastNode,
                queue |-> [first |-> q.first, last |-> qn[lastNode].prev]]
          ELSE [ret |-> lastNode, queue |-> q]

\* result: the returned QueueNode pointer and the Queue struct after the call
pop_back(tv, q, qn) ==
  IF tv = NULL THEN [ret |-> NULL, queue |-> q]
  ELSE LET lastNode == q.last
       IN IF lastNode # NULL
          THEN LET newLast == qn[lastNode].prev
               IN [ret |-> lastNode,
                   queue |-> [first |-> IF newLast = NULL THEN NULL
                                        ELSE q.first,
                              last |-> newLast]]
          ELSE [ret |-> lastNode, queue |-> q]

\* push_front that does not set prev of the old first node
push_front_no_prev(tv, q, qn, path, grid, ok) ==
  IF tv = NULL THEN [queue |-> q, qnodes |-> qn]
  ELSE IF ~ok THEN [queue |-> q, qnodes |-> qn]
  ELSE LET new_first == Len(qn) + 1
           fresh == [path |-> path, grid |-> grid, next |-> q.first,
                     prev |-> NULL, freed |-> FALSE]
       IN [queue |-> [first |-> new_first,
                      last |-> IF q.last = NULL THEN new_first ELSE q.last],
           qnodes |-> Append(qn, fresh)]

\* result: the Queue struct and the QueueNode heap after the call
push_front(tv, q, qn, path, grid, ok) ==
  IF tv = NULL THEN [queue |-> q, qnodes |-> qn]
  ELSE IF ~ok THEN [queue |-> q, qnodes |-> qn]
  ELSE LET new_first == Len(qn) + 1
           fresh == [path |-> path, grid |-> grid, next |-> q.first,
                     prev |-> NULL, freed |-> FALSE]
           linked == IF q.first # NULL
                     THEN [qn EXCEPT ![q.first].prev = new_first]
                     ELSE qn
       IN [queue |-> [first |-> new_first,
                      last |-> IF q.last = NULL THEN new_first ELSE q.last],
           qnodes |-> Append(linked, fresh)]

\* free_queue_node that frees the node without dropping its path
free_queue_node_keeps_path(ps, qn, n) ==
  [paths |-> ps, qnodes |-> [qn EXCEPT ![n].freed = TRUE]]

\* result: the Path heap and the QueueNode heap after the call
free_queue_node(ps, qn, n) ==
  [paths |-> drop_reference_to_path(ps, qn[n].path),
   qnodes |-> [qn EXCEPT ![n].freed = TRUE]]

(***************************************************************************)
(* Reference search: level sets of the move graph, independent of the      *)
(* solver's queue.                                                         *)
(***************************************************************************)
Successors(g) == {explode(g, c) : c \in {d \in Cells : is_star(g, d)}}

SuccessorsOf(S) == UNION {Successors(g) : g \in S}

\* grids from which some sequence of at most d legal moves reaches a grid
\* of near
RECURSIVE Backward(_, _)
Backward(near, d) ==
  IF d = 0 THEN near
  ELSE LET more == near \cup {g \in Grids : Successors(g) \cap near # {}}
       IN IF more = near THEN near ELSE Backward(more, d - 1)

WithinDist(d) == Backward({winning_grid}, d)

\* least number of legal moves from the level set S (reached after k moves)
\* to the winning grid, -1 when the winning grid cannot be reached
RECURSIVE DistFrom(_, _, _)
DistFrom(S, seen, k) ==
  IF winning_grid \in S THEN k
  ELSE LET next == SuccessorsOf(S) \ seen
       IN IF next = {} THEN -1
          ELSE DistFrom(next, seen \cup next, k + 1)

Dist(g) == DistFrom({g}, {g}, 0)

Solvable == WithinDist(Cardinality(Grids))

\* the initial grids of the search scenario
InitGrids == WithinDist(MaxDist) \cup (Grids \ Solvable)

(***************************************************************************)
(* play and shortest_winning_path.                                         *)
(***************************************************************************)
Mode == {"Chatty", "Silent"}

NoOutput == [kind |-> "nothing", moves |-> <<>>]

\* to_sequence that emits a node's move before the rest: the linked order
RECURSIVE to_sequence_linked_order(_, _)
to_sequence_linked_order(ps, path) ==
  IF path = NULL THEN <<>>
  ELSE <<ps[path].move>> \o to_sequence_linked_order(ps, ps[path].rest)

\* moves of a path in play order: the rest first, then the node's own move
RECURSIVE to_sequence(_, _)
to_sequence(ps, path) ==
  IF path = NULL THEN <<>>
  ELSE Append(to_sequence(ps, ps[path].rest), ps[path].move)

Init ==
  /\ pc = "call"
  /\ initial \in InitGrids
  /\ visited = {}
  /\ to_visit = NULL
  /\ queue = EmptyQueue
  /\ qnodes = <<>>
  /\ paths = <<>>
  /\ node = NULL
  /\ winning_path = NULL
  /\ i = 0
  /\ new_grid = 0
  /\ failsLeft = 0
  /\ output = NoOutput
  /\ pushedLog = <<>>
  /\ poppedLog = <<>>
  /\ tgrids = <<>>
  /\ tcells = <<>>
  /\ toutcome = "none"

\* lines 315-329: allocate the table and the queue, seed the queue
StartSearch ==
  /\ pc = "call"
  /\ \E okTable \in AllocOutcomes(failsLeft) :
     \E okQueue \in AllocOutcomes(failsLeft - Cost(okTable)) :
     \E okNode \in AllocOutcomes(failsLeft - Cost(okTable) - Cost(okQueue)) :
       LET made == new_queue(okQueue)
       IN IF ~okTable \/ made.ret = NULL
          THEN /\ pc' = "returned"
               /\ failsLeft' = failsLeft - Cost(okTable) - Cost(okQueue)
               /\ UNCHANGED <<to_visit, queue, qnodes>>
          ELSE LET pushed == push_front(made.ret, made.queue, qnodes,
                                        new_path, initial, okNode)
               IN /\ pc' = "loop"
                  /\ to_visit' = made.ret
                  /\ queue' = pushed.queue
                  /\ qnodes' = pushed.qnodes
                  /\ failsLeft' = failsLeft - Cost(okTable) - Cost(okQueue)
                                    - Cost(okNode)
  /\ visited' = {}
  /\ node' = NULL
  /\ winning_path' = NULL
  /\ UNCHANGED <<initial, paths, i, new_grid, output>>
  /\ UNCHANGED <<logVars, gridVars>>

\* the loop that goes round again when pop_back returns NULL
Dequeue_no_exit ==
  /\ pc = "loop"
  /\ LET popped == pop_back(to_visit, queue, qnodes)
     IN /\ node' = popped.ret
        /\ queue' = popped.queue
        /\ IF popped.ret = NULL
           THEN /\ pc' = "loop"
                /\ UNCHANGED <<visited, winning_path, paths, i>>
           ELSE LET grid == qnodes[popped.ret].grid
                    grid_outcome == outcome(grid)
                IN /\ visited' = visited \cup {grid}
                   /\ IF grid_outcome = "Won"
                      THEN /\ winning_path' = qnodes[popped.ret].path
                           /\ paths' = inc_reference_to_path(
                                         paths, qnodes[popped.ret].path)
                           /\ pc' = "free"
                           /\ UNCHANGED i
                      ELSE IF grid_outcome = "Continue"
                      THEN /\ i' = 1
                           /\ pc' = "expand"
                           /\ UNCHANGED <<winning_path, paths>>
                      ELSE /\ pc' = "free"
                           /\ UNCHANGED <<winning_path, paths, i>>
  /\ UNCHANGED <<initial, to_visit, qnodes, new_grid, failsLeft, output>>
  /\ UNCHANGED <<logVars, gridVars>>

\* lines 331-344: take the next node, mark it, classify it
Dequeue ==
  /\ pc = "loop"
  /\ LET popped == pop_back(to_visit, queue, qnodes)
     IN /\ node' = popped.ret
        /\ queue' = popped.queue
        /\ IF popped.ret = NULL
           THEN /\ pc' = "drain"
                /\ UNCHANGED <<visited, winning_path, paths, i>>
           ELSE LET grid == qnodes[popped.ret].grid
                    grid_outcome == outcome(grid)
                IN /\ visited' = visited \cup {grid}
                   /\ IF grid_outcome = "Won"
                      THEN /\ winning_path' = qnodes[popped.ret].path
                           /\ paths' = inc_reference_to_path(
                                         paths, qnodes[popped.ret].path)
                           /\ pc' = "free"
                           /\ UNCHANGED i
                      ELSE IF grid_outcome = "Continue"
                      THEN /\ i' = 1
                           /\ pc' = "expand"
                           /\ UNCHANGED <<winning_path, paths>>
                      ELSE /\ pc' = "free"
                           /\ UNCHANGED <<winning_path, paths, i>>
  /\ UNCHANGED <<initial, to_visit, qnodes, new_grid, failsLeft, output>>
  /\ UNCHANGED <<logVars, gridVars>>

\* the loop over the cells going from 9 down to 1
ExpandCell_descending ==
  /\ pc = "expand"
  /\ i <= 9
  /\ LET grid == qnodes[node].grid
     IN IF is_star(grid, 10 - i)
        THEN LET child == explode(grid, 10 - i)
             IN /\ new_grid' = child
                /\ IF child \notin visited
                   THEN \E okPath \in AllocOutcomes(failsLeft) :
                        \E okNode \in AllocOutcomes(failsLeft - Cost(okPath)) :
                          LET added == add_move_to_path(
                                         paths, qnodes[node].path, 10 - i, okPath)
                              pushed == push_front(to_visit, queue, qnodes,
                                                   added.ret, child, okNode)
                          IN /\ paths' = added.paths
                             /\ queue' = pushed.queue
                             /\ qnodes' = pushed.qnodes
                             /\ failsLeft' = failsLeft - Cost(okPath)
                                               - Cost(okNode)
                   ELSE UNCHANGED <<paths, queue, qnodes, failsLeft>>
        ELSE UNCHANGED <<new_grid, paths, queue, qnodes, failsLeft>>
  /\ i' = i + 1
  /\ pc' = IF i = 9 THEN "free" ELSE "expand"
  /\ UNCHANGED <<initial, visited, to_visit, node, winning_path, output>>
  /\ UNCHANGED <<logVars, gridVars>>

\* lines 345-356: one iteration of the loop over the cells
ExpandCell ==
  /\ pc = "expand"
  /\ i <= 9
  /\ LET grid == qnodes[node].grid
     IN IF is_star(grid, i)
        THEN LET child == explode(grid, i)
             IN /\ new_grid' = child
                /\ IF child \notin visited
                   THEN \E okPath \in AllocOutcomes(failsLeft) :
                        \E okNode \in AllocOutcomes(failsLeft - Cost(okPath)) :
                          LET added == add_move_to_path(
                                         paths, qnodes[node].path, i, okPath)
                              pushed == push_front(to_visit, queue, qnodes,
                                                   added.ret, child, okNode)
                          IN /\ paths' = added.paths
                             /\ queue' = pushed.queue
                             /\ qnodes' = pushed.qnodes
                             /\ failsLeft' = failsLeft - Cost(okPath)
                                               - Cost(okNode)
                   ELSE UNCHANGED <<paths, queue, qnodes, failsLeft>>
        ELSE UNCHANGED <<new_grid, paths, queue, qnodes, failsLeft>>
  /\ i' = i + 1
  /\ pc' = IF i = 9 THEN "free" ELSE "expand"
  /\ UNCHANGED <<initial, visited, to_visit, node, winning_path, output>>
  /\ UNCHANGED <<logVars, gridVars>>

\* lines 359-364: free the node, leave the loop when a path was captured
FreeNode ==
  /\ pc = "free"
  /\ LET freed == free_queue_node(paths, qnodes, node)
     IN /\ paths' = freed.paths
        /\ qnodes' = freed.qnodes
  /\ pc' = IF winning_path # NULL THEN "drain" ELSE "loop"
  /\ UNCHANGED <<initial, visited, to_visit, queue, node, winning_path, i,
                 new_grid, failsLeft, output>>
  /\ UNCHANGED <<logVars, gridVars>>

\* lines 286-296 and 369-371: free_queue, one node per step, then return
Drain ==
  /\ pc = "drain"
  /\ LET popped == pop_back(to_visit, queue, qnodes)
     IN IF popped.ret # NULL
        THEN LET freed == free_queue_node(paths, qnodes, popped.ret)
             IN /\ queue' = popped.queue
                /\ paths' = freed.paths
                /\ qnodes' = freed.qnodes
                /\ UNCHANGED <<pc, to_visit>>
        ELSE /\ pc' = "returned"
             /\ to_visit' = NULL
             /\ queue' = popped.queue
             /\ UNCHANGED <<paths, qnodes>>
  /\ UNCHANGED <<initial, visited, node, winning_path, i, new_grid,
                 failsLeft, output>>
  /\ UNCHANGED <<logVars, gridVars>>

\* lines 438-446: play reports the result and drops its reference
Report ==
  /\ pc = "returned"
  /\ \E mode \in Mode :
       output' = IF mode = "Chatty"
                 THEN IF winning_path = NULL
                      THEN [kind |-> "no winning sequence", moves |-> <<>>]
                      ELSE [kind |-> "moves",
                            moves |-> to_sequence(paths, winning_path)]
                 ELSE NoOutput
  /\ paths' = drop_reference_to_path(paths, winning_path)
  /\ pc' = "exit"
  /\ UNCHANGED <<initial, visited, to_visit, queue, qnodes, node,
                 winning_path, i, new_grid, failsLeft>>
  /\ UNCHANGED <<logVars, gridVars>>

Next ==
  \/ StartSearch
  \/ Dequeue
  \/ ExpandCell
  \/ FreeNode
  \/ Drain
  \/ Report

Spec == Init /\ [][Next]_vars

(***************************************************************************)
(* Grid scenario: explode and outcome applied to every grid.               *)
(***************************************************************************)
CellInputs == -1 .. MaxCell

Last(seq) == seq[Len(seq)]

Idle ==
  /\ initial = 0
  /\ visited = {}
  /\ to_visit = NULL
  /\ queue = EmptyQueue
  /\ qnodes = <<>>
  /\ paths = <<>>
  /\ node = NULL
  /\ winning_path = NULL
  /\ i = 0
  /\ new_grid = 0
  /\ failsLeft = 0
  /\ output = NoOutput

GridInit ==
  /\ pc = "grid"
  /\ Idle
  /\ pushedLog = <<>>
  /\ poppedLog = <<>>
  /\ \E g \in Grids : tgrids = <<g>>
  /\ tcells = <<>>
  /\ toutcome = "none"

Explode ==
  /\ pc = "grid"
  /\ Len(tcells) < MaxApply
  /\ \E cell \in CellInputs :
       /\ tgrids' = Append(tgrids, explode(Last(tgrids), cell))
       /\ tcells' = Append(tcells, cell)
  /\ toutcome' = "none"
  /\ UNCHANGED <<searchVars, logVars>>

Classify ==
  /\ pc = "grid"
  /\ toutcome = "none"
  /\ toutcome' = outcome(Last(tgrids))
  /\ UNCHANGED <<tgrids, tcells, searchVars, logVars>>

GridNext ==
  \/ Explode
  \/ Classify

GridSpec == GridInit /\ [][GridNext]_vars

(***************************************************************************)
(* Queue scenario: any interleaving of push_front and pop_back on one      *)
(* queue.                                                                  *)
(***************************************************************************)
QueueInit ==
  /\ pc = "queue"
  /\ initial = 0
  /\ visited = {}
  /\ to_visit = QUEUE
  /\ queue = EmptyQueue
  /\ qnodes = <<>>
  /\ paths = <<>>
  /\ node = NULL
  /\ winning_path = NULL
  /\ i = 0
  /\ new_grid = 0
  /\ failsLeft = MaxFail
  /\ output = NoOutput
  /\ pushedLog = <<>>
  /\ poppedLog = <<>>
  /\ tgrids = <<>>
  /\ tcells = <<>>
  /\ toutcome = "none"

Push ==
  /\ pc = "queue"
  /\ Len(qnodes) < MaxQueueOps
  /\ \E grid \in 0 .. MaxQueueGrid : \E ok \in AllocOutcomes(failsLeft) :
       LET pushed == push_front(to_visit, queue, qnodes, new_path, grid, ok)
       IN /\ queue' = pushed.queue
          /\ qnodes' = pushed.qnodes
          /\ failsLeft' = failsLeft - Cost(ok)
          /\ pushedLog' = IF ok THEN Append(pushedLog, grid) ELSE pushedLog
  /\ UNCHANGED <<pc, initial, visited, to_visit, paths, node, winning_path,
                 i, new_grid, output, poppedLog>>
  /\ UNCHANGED gridVars

\* pop_back, then free_queue_node on what it returned (lines 292-293)
Pop ==
  /\ pc = "queue"
  /\ Len(poppedLog) < MaxQueueOps
  /\ LET popped == pop_back(to_visit, queue, qnodes)
     IN /\ node' = popped.ret
        /\ queue' = popped.queue
        /\ IF popped.ret # NULL
           THEN LET freed == free_queue_node(paths, qnodes, popped.ret)
                IN /\ paths' = freed.paths
                   /\ qnodes' = freed.qnodes
                   /\ poppedLog' = Append(poppedLog,
                        [ret |-> popped.ret, grid |-> qnodes[popped.ret].grid,
                         pushed |-> Len(pushedLog)])
           ELSE /\ UNCHANGED <<paths, qnodes>>
                /\ poppedLog' = Append(poppedLog,
                     [ret |-> NULL, grid |-> -1, pushed |-> Len(pushedLog)])
  /\ UNCHANGED <<pc, initial, visited, to_visit, winning_path, i, new_grid,
                 failsLeft, output, pushedLog>>
  /\ UNCHANGED gridVars

QueueNext ==
  \/ Push
  \/ Pop

QueueSpec == QueueInit /\ [][QueueNext]_vars

\* the search with the scheduling of a running program: it keeps stepping
FairSpec == Spec /\ WF_vars(Next)

(***************************************************************************)
(* Properties.                                                             *)
(***************************************************************************)
Returned == pc = "returned"

ResultMoves == to_sequence(paths, winning_path)

\* every move explodes a star, and the winning grid is not met before the
\* last move
RECURSIVE ReplayLegal(_, _)
ReplayLegal(g, moves) ==
  \/ moves = <<>>
  \/ /\ g # winning_grid
     /\ is_star(g, Head(moves))
     /\ ReplayLegal(explode(g, Head(moves)), Tail(moves))

RECURSIVE ReplayEnd(_, _)
ReplayEnd(g, moves) ==
  IF moves = <<>> THEN g ELSE ReplayEnd(explode(g, Head(moves)), Tail(moves))

\* C1: when the solver returns a non-empty path, replaying its moves in play
\* order from the initial grid explodes a star at every step, meets no
\* winning grid before the last move and ends on the winning grid.
C1_RoundTrip ==
  (Returned /\ winning_path # NULL) =>
    /\ ReplayLegal(initial, ResultMoves)
    /\ ReplayEnd(initial, ResultMoves) = winning_grid

C1_Witness == Returned /\ winning_path # NULL /\ Len(ResultMoves) >= 3

\* C2: for an initial grid from which the winning grid can be reached, the
\* returned path has as many moves as the shortest sequence of legal moves
\* found by the reference search.
C2_Shortest ==
  (Returned /\ Dist(initial) >= 0) => Len(ResultMoves) = Dist(initial)

C2_Witness == Returned /\ Dist(initial) >= 2 /\ Len(ResultMoves) >= 2

\* C3: for an initial grid other than the winning grid the solver returns
\* NULL exactly when no sequence of legal moves reaches the winning grid; it
\* returns NULL for the empty grid.
C3_NoneIffUnsolvable ==
  /\ (Returned /\ initial # winning_grid) =>
       (winning_path = NULL <=> Dist(initial) = -1)
  /\ (Returned /\ initial = empty_grid) => winning_path = NULL

C3_Witness == Returned /\ initial = empty_grid /\ winning_path = NULL

\* C4: when the initial grid is the winning grid the solver returns a found
\* result that the caller can tell from the NULL of "no solution", so play
\* does not report that there is no winning sequence.
C4_WonIsFound ==
  initial = winning_grid =>
    /\ Returned => winning_path # NULL
    /\ pc = "exit" => output.kind # "no winning sequence"

\* the loop of lines 331-365 has been left
LoopEnded == pc \in {"drain", "returned", "exit"}

\* C5: the search loop ends: the frontier runs empty or a winning entry has
\* been dequeued.
C5_Terminates == <>LoopEnded

C5_Witness == pc = "drain" /\ visited # {} /\ Len(qnodes) > 1

(***************************************************************************)
(* Properties of the grid functions.                                       *)
(***************************************************************************)
Stars(g) == {c \in Cells : is_star(g, c)}

\* cells whose content differs between two grids
Changed(g, h) == {c \in Cells : is_star(g, c) # is_star(h, c)}

Corners == {1, 3, 7, 9}
Edges == {2, 4, 6, 8}

\* the cell and its neighbours in the rows of 1 2 3 / 4 5 6 / 7 8 9: a corner
\* takes its 2x2 block, an edge its side, the centre its cross
Pattern(c) ==
  CASE c = 1 -> {1, 2, 4, 5}
    [] c = 2 -> {1, 2, 3}
    [] c = 3 -> {2, 3, 5, 6}
    [] c = 4 -> {1, 4, 7}
    [] c = 5 -> {2, 4, 5, 6, 8}
    [] c = 6 -> {3, 6, 9}
    [] c = 7 -> {4, 5, 7, 8}
    [] c = 8 -> {7, 8, 9}
    [] c = 9 -> {5, 6, 8, 9}

\* the explode calls made so far that hit a star
StarSteps == {k \in 1 .. Len(tcells) : is_star(tgrids[k], tcells[k])}

\* C6 as stated: exploding a star changes a set of cells that contains the
\* star, of 3 cells for a corner, 5 for an edge and 5 for the centre.
C6_Original ==
  \A k \in StarSteps :
    LET diff == Changed(tgrids[k], tgrids[k + 1])
    IN /\ tcells[k] \in diff
       /\ tcells[k] \in Corners => Cardinality(diff) = 3
       /\ tcells[k] \in Edges => Cardinality(diff) = 5
       /\ tcells[k] = 5 => Cardinality(diff) = 5

\* C6 amended: exploding a star changes exactly the pattern of its cell,
\* which contains the star and has 4 cells for a corner, 3 for an edge and
\* 5 for the centre; nothing outside the nine cells changes.
C6_ToggleSet ==
  \A k \in StarSteps :
    LET diff == Changed(tgrids[k], tgrids[k + 1])
    IN /\ diff = Pattern(tcells[k])
       /\ tgrids[k + 1] \in Grids
       /\ tcells[k] \in diff
       /\ tcells[k] \in Corners => Cardinality(diff) = 4
       /\ tcells[k] \in Edges => Cardinality(diff) = 3
       /\ tcells[k] = 5 => Cardinality(diff) = 5

C6_Witness ==
  /\ pc = "grid"
  /\ Len(tcells) = 2
  /\ StarSteps = {1, 2}
  /\ tcells[1] \in Corners
  /\ tcells[2] \in Edges

\* C7 as stated: Won is the outcome of the grid with stars at 2, 3, 5, 6, 7
\* and 8 and of no other grid; Lost is the outcome of the empty grid only.
C7_Original ==
  toutcome # "none" =>
    /\ toutcome = "Won" <=> Stars(Last(tgrids)) = {2, 3, 5, 6, 7, 8}
    /\ toutcome = "Lost" <=> Stars(Last(tgrids)) = {}

\* C7 amended: Won is the outcome of the grid with stars at every cell but
\* the centre (1, 2, 3, 4, 6, 7, 8, 9) and of no other grid; Lost is the
\* outcome of the empty grid only.
C7_WinningGrid ==
  toutcome # "none" =>
    /\ toutcome = "Won" <=> Stars(Last(tgrids)) = {1, 2, 3, 4, 6, 7, 8, 9}
    /\ toutcome = "Lost" <=> Stars(Last(tgrids)) = {}

C7_Witness ==
  /\ pc = "grid"
  /\ toutcome = "Won"
  /\ Len(tcells) >= 1
  /\ Stars(Last(tgrids)) = Cells \ {5}

\* C8: exploding the same cell a second time changes nothing, whether the
\* cell was a star, a hole or no cell at all.
C8_Idempotent ==
  \A k \in 1 .. Len(tcells) - 1 :
    tcells[k] = tcells[k + 1] => tgrids[k + 2] = tgrids[k + 1]

C8_Witness ==
  /\ pc = "grid"
  /\ Len(tcells) = 2
  /\ tcells[1] = tcells[2]
  /\ is_star(tgrids[1], tcells[1])
  /\ tgrids[2] # tgrids[1]

\* C9: explode maps the 512 grids into themselves and never yields the
\* error grid, so every grid in the frontier, every index set in the
\* visited table and every index read from it lies in 0..511.
C9_Closed ==
  /\ pc = "call" =>
       \A g \in Grids : \A c \in Cells :
         explode(g, c) \in Grids /\ explode(g, c) # error_grid
  /\ \A n \in 1 .. Len(qnodes) : qnodes[n].grid \in Grids
  /\ visited \subseteq Grids
  /\ new_grid \in Grids

C9_Witness ==
  /\ pc = "expand"
  /\ Cardinality(visited) >= 3
  /\ new_grid \in visited
  /\ new_grid # initial

(***************************************************************************)
(* Properties of the queue.                                                *)
(***************************************************************************)
\* the pops so far that returned a node
RECURSIVE Taken(_)
Taken(log) ==
  IF log = <<>> THEN <<>>
  ELSE IF Last(log).ret = NULL THEN Taken(SubSeq(log, 1, Len(log) - 1))
  ELSE Append(Taken(SubSeq(log, 1, Len(log) - 1)), Last(log))

\* C10: pop_back returns the entries in the order they were pushed, it
\* returns NULL exactly when every pushed entry was already popped, and
\* first and last are NULL exactly when the queue holds no entry.
C10_Fifo ==
  /\ Len(Taken(poppedLog)) <= Len(pushedLog)
  /\ \A k \in 1 .. Len(Taken(poppedLog)) :
       Taken(poppedLog)[k].grid = pushedLog[k]
  /\ \A k \in 1 .. Len(poppedLog) :
       poppedLog[k].ret = NULL <=>
         Len(Taken(SubSeq(poppedLog, 1, k - 1))) = poppedLog[k].pushed
  /\ queue.first = NULL <=> Len(Taken(poppedLog)) = Len(pushedLog)
  /\ queue.last = NULL <=> Len(Taken(poppedLog)) = Len(pushedLog)

C10_Witness ==
  /\ pc = "queue"
  /\ Len(pushedLog) = 3
  /\ pushedLog[1] # pushedLog[2]
  /\ Len(poppedLog) = 4
  /\ poppedLog[1].ret = NULL
  /\ poppedLog[3].ret # NULL
  /\ poppedLog[3].pushed = 3
  /\ poppedLog[4].ret # NULL
  /\ queue.first # NULL

(***************************************************************************)
(* Far scenario: the search from one grid four moves away from the win,    *)
(* 0b101111111.                                                            *)
(***************************************************************************)
FarInit ==
  /\ pc = "call"
  /\ initial = 383
  /\ visited = {}
  /\ to_visit = NULL
  /\ queue = EmptyQueue
  /\ qnodes = <<>>
  /\ paths = <<>>
  /\ node = NULL
  /\ winning_path = NULL
  /\ i = 0
  /\ new_grid = 0
  /\ failsLeft = 0
  /\ output = NoOutput
  /\ pushedLog = <<>>
  /\ poppedLog = <<>>
  /\ tgrids = <<>>
  /\ tcells = <<>>
  /\ toutcome = "none"

\* lines 345-356 from cell on, every allocation succeeding; st holds the
\* path heap, the queue, the node heap and the last computed grid
RECURSIVE expand_cells(_, _, _, _, _)
expand_cells(st, seen, grid, path, cell) ==
  IF cell > 9 THEN st
  ELSE IF is_star(grid, cell)
  THEN LET child == explode(grid, cell)
       IN IF child \notin seen
          THEN LET added == add_move_to_path(st.paths, path, cell, TRUE)
                   pushed == push_front(QUEUE, st.queue, st.qnodes,
                                        added.ret, child, TRUE)
               IN expand_cells([paths |-> added.paths,
                                queue |-> pushed.queue,
                                qnodes |-> pushed.qnodes,
                                new_grid |-> child],
                               seen, grid, path, cell + 1)
          ELSE expand_cells([st EXCEPT !.new_grid = child],
                            seen, grid, path, cell + 1)
  ELSE expand_cells(st, seen, grid, path, cell + 1)

\* lines 331-365: one whole iteration of the loop
Iteration ==
  /\ pc = "loop"
  /\ to_visit = QUEUE
  /\ LET popped == pop_back(to_visit, queue, qnodes)
     IN /\ node' = popped.ret
        /\ IF popped.ret = NULL
           THEN /\ pc' = "drain"
                /\ queue' = popped.queue
                /\ UNCHANGED <<visited, winning_path, paths, qnodes, i,
                               new_grid>>
           ELSE LET grid == qnodes[popped.ret].grid
                    path == qnodes[popped.ret].path
                    grid_outcome == outcome(grid)
                    start == [paths |-> IF grid_outcome = "Won"
                                        THEN inc_reference_to_path(paths, path)
                                        ELSE paths,
                              queue |-> popped.queue,
                              qnodes |-> qnodes,
                              new_grid |-> new_grid]
                    done == IF grid_outcome = "Continue"
                            THEN expand_cells(start, visited \cup {grid},
                                              grid, path, 1)
                            ELSE start
                    freed == free_queue_node(done.paths, done.qnodes,
                                             popped.ret)
                    captured == IF grid_outcome = "Won" THEN path
                                ELSE winning_path
                IN /\ visited' = visited \cup {grid}
                   /\ winning_path' = captured
                   /\ paths' = freed.paths
                   /\ qnodes' = freed.qnodes
                   /\ queue' = done.queue
                   /\ new_grid' = done.new_grid
                   /\ i' = IF grid_outcome = "Continue" THEN 10 ELSE i
                   /\ pc' = IF captured # NULL THEN "drain" ELSE "loop"
  /\ UNCHANGED <<initial, to_visit, failsLeft, output>>
  /\ UNCHANGED <<logVars, gridVars>>

FarNext ==
  \/ StartSearch
  \/ Iteration
  \/ Drain
  \/ Report

FarSpec == FarInit /\ [][FarNext]_vars

(***************************************************************************)
(* Properties of the search loop.                                          *)
(***************************************************************************)
\* the step of the loop that takes a node out of the queue
DequeuedNode == pc = "loop" /\ pc' \in {"expand", "free"}

\* C11: no grid is dequeued and processed twice in one search: the grid of
\* a dequeued node is not yet marked visited.
C11_VisitedOnce ==
  [][DequeuedNode => qnodes[node'].grid \notin visited]_vars

InLoop == pc \in {"loop", "expand", "free"}

\* nodes taken out of the queue by the loop so far
Dequeues ==
  Cardinality({n \in 1 .. Len(qnodes) : qnodes[n].freed})
    + (IF pc \in {"expand", "free"} THEN 1 ELSE 0)

\* C12: one search pushes at most 512 x 9 entries and dequeues at most 512.
C12_BoundedWork ==
  InLoop =>
    /\ Len(qnodes) <= Cardinality(Grids) * Cardinality(Cells)
    /\ Dequeues <= Cardinality(Grids)

\* number of moves of a path
RECURSIVE PathLen(_, _)
PathLen(ps, path) ==
  IF path = NULL THEN 0 ELSE 1 + PathLen(ps, ps[path].rest)

\* least number of legal moves from the level set S (reached after k moves)
\* to the grid target, -1 when it cannot be reached
RECURSIVE MovesFrom(_, _, _, _)
MovesFrom(S, seen, k, target) ==
  IF target \in S THEN k
  ELSE LET next == SuccessorsOf(S) \ seen
       IN IF next = {} THEN -1
          ELSE MovesFrom(next, seen \cup next, k + 1, target)

MinMoves(from, target) == MovesFrom({from}, {from}, 0, target)

\* C13: the first time a grid is dequeued, the path of its entry has as many
\* moves as the shortest sequence of legal moves from the initial grid to it.
C13_FirstDequeueShortest ==
  [][(DequeuedNode /\ qnodes[node'].grid \notin visited) =>
       PathLen(paths, qnodes[node'].path)
         = MinMoves(initial, qnodes[node'].grid)]_vars

C13_Witness ==
  /\ pc = "expand"
  /\ i = 1
  /\ PathLen(paths, qnodes[node].path) >= 2
  /\ PathLen(paths, qnodes[node].path) = MinMoves(initial, qnodes[node].grid)

\* the paths at the two ends of the queue differ by at most one move, the
\* longer one at the front
FrontierSpread ==
  (to_visit = QUEUE /\ queue.first # NULL /\ queue.last # NULL) =>
    PathLen(paths, qnodes[queue.first].path)
      - PathLen(paths, qnodes[queue.last].path) \in {0, 1}

\* a dequeued entry has a path at least as long as the entry dequeued before
DequeueOrder ==
  (DequeuedNode /\ node # NULL) =>
    PathLen(paths, qnodes[node'].path) >= PathLen(paths, qnodes[node].path)

\* C14: entries are dequeued in non-decreasing order of path length, and at
\* every moment the path lengths at the tail and the head of the frontier
\* differ by at most one.
C14_LevelOrder == [](FrontierSpread) /\ [][DequeueOrder]_vars

C14_Witness ==
  /\ pc = "loop"
  /\ node # NULL
  /\ queue.last # NULL
  /\ PathLen(paths, qnodes[queue.last].path) >= 2
  /\ PathLen(paths, qnodes[queue.first].path)
       = PathLen(paths, qnodes[queue.last].path) + 1
  /\ PathLen(paths, qnodes[queue.last].path)
       = PathLen(paths, qnodes[node].path)

(***************************************************************************)
(* Properties of the reference counts.                                     *)
(***************************************************************************)
\* the nodes of a path
RECURSIVE PathNodes(_, _)
PathNodes(ps, path) ==
  IF path = NULL THEN {} ELSE {path} \cup PathNodes(ps, ps[path].rest)

\* path nodes and queue nodes that are allocated and not freed
LivePaths == {n \in 1 .. Len(paths) : ~paths[n].freed}
LiveNodes == {n \in 1 .. Len(qnodes) : ~qnodes[n].freed}

\* C15: when the solver returns, the path nodes still allocated are the
\* nodes of the returned path, each with one reference, and no queue node
\* is left; once play has dropped the result every path node is freed.
C15_NoLeak ==
  /\ Returned =>
       /\ LiveNodes = {}
       /\ LivePaths = PathNodes(paths, winning_path)
       /\ \A n \in LivePaths : paths[n].references = 1
  /\ pc = "exit" => LivePaths = {}

C15_Witness ==
  /\ pc = "exit"
  /\ winning_path # NULL
  /\ Len(paths) >= 10
  /\ LivePaths = {}

(***************************************************************************)
(* Counting scenario: the searches from the grids at most RefDist moves     *)
(* from the win, where every reference count is compared with a count of    *)
(* the pointers in the heap.                                                *)
(***************************************************************************)
RefDist == 2      \* initial grids of the counting scenario

RefInit ==
  /\ pc = "call"
  /\ initial \in WithinDist(RefDist) \cup (Grids \ Solvable)
  /\ visited = {}
  /\ to_visit = NULL
  /\ queue = EmptyQueue
  /\ qnodes = <<>>
  /\ paths = <<>>
  /\ node = NULL
  /\ winning_path = NULL
  /\ i = 0
  /\ new_grid = 0
  /\ failsLeft = 0
  /\ output = NoOutput
  /\ pushedLog = <<>>
  /\ poppedLog = <<>>
  /\ tgrids = <<>>
  /\ tcells = <<>>
  /\ toutcome = "none"

RefSpec == RefInit /\ [][Next]_vars

\* the captured result is a live path value until play drops it
ResultHeld == winning_path # NULL /\ pc # "exit"

NoCounts == [n \in 1 .. Len(paths) |-> 0]

\* cnt plus one for every allocated queue node lo..hi at the node its path
\* starts with; the first half is counted before the second half
RECURSIVE CountEntries(_, _, _)
CountEntries(lo, hi, cnt) ==
  IF lo > hi THEN cnt
  ELSE IF lo = hi
  THEN IF ~qnodes[lo].freed /\ qnodes[lo].path # NULL
       THEN [cnt EXCEPT ![qnodes[lo].path] = @ + 1]
       ELSE cnt
  ELSE LET left == CountEntries(lo, (lo + hi) \div 2, cnt)
       IN IF Len(left) = Len(cnt)
          THEN CountEntries((lo + hi) \div 2 + 1, hi, left)
          ELSE left

\* cnt plus one for every allocated path node lo..hi at the node its rest is
RECURSIVE CountRests(_, _, _)
CountRests(lo, hi, cnt) ==
  IF lo > hi THEN cnt
  ELSE IF lo = hi
  THEN IF ~paths[lo].freed /\ paths[lo].rest # NULL
       THEN [cnt EXCEPT ![paths[lo].rest] = @ + 1]
       ELSE cnt
  ELSE LET left == CountRests(lo, (lo + hi) \div 2, cnt)
       IN IF Len(left) = Len(cnt)
          THEN CountRests((lo + hi) \div 2 + 1, hi, left)
          ELSE left

\* for every path node, the number of pointers to it: from allocated queue
\* nodes, from allocated path nodes and from the captured result
DirectHolders ==
  LET held == CountRests(1, Len(paths),
                         CountEntries(1, Len(qnodes), NoCounts))
  IN IF ResultHeld THEN [held EXCEPT ![winning_path] = @ + 1] ELSE held

\* cnt plus one at every node of the path
RECURSIVE AddChain(_, _)
AddChain(cnt, path) ==
  IF path = NULL THEN cnt
  ELSE AddChain([cnt EXCEPT ![path] = @ + 1], paths[path].rest)

RECURSIVE CountChains(_, _, _)
CountChains(lo, hi, cnt) ==
  IF lo > hi THEN cnt
  ELSE IF lo = hi
  THEN IF ~qnodes[lo].freed THEN AddChain(cnt, qnodes[lo].path) ELSE cnt
  ELSE LET left == CountChains(lo, (lo + hi) \div 2, cnt)
       IN IF Len(left) = Len(cnt)
          THEN CountChains((lo + hi) \div 2 + 1, hi, left)
          ELSE left

\* for every path node, the number of live path values (held by an
\* allocated queue node or as the captured result) that contain it
ContainingPaths ==
  LET held == CountChains(1, Len(qnodes), NoCounts)
  IN IF ResultHeld THEN AddChain(held, winning_path) ELSE held

\* C16 as stated: the reference count of an allocated path node is the
\* number of live path values that contain the node.
C16_Original ==
  LET containing == ContainingPaths
  IN \A n \in LivePaths : paths[n].references = containing[n]

\* C16 amended: the reference count of an allocated path node is the
\* number of live path values that start at the node plus the number of
\* allocated path nodes whose rest it is; it is never more than the number
\* of live path values that contain the node.
C16_CountsHolders ==
  LET direct == DirectHolders
      containing == ContainingPaths
  IN \A n \in LivePaths :
       /\ paths[n].references = direct[n]
       /\ paths[n].references <= containing[n]

C16_Witness ==
  /\ pc = "expand"
  /\ \E n \in LivePaths :
       /\ paths[n].references >= 3
       /\ paths[n].references < ContainingPaths[n]

(***************************************************************************)
(* Failure scenario: the searches from the grids at most FailDist moves    *)
(* from the win, where up to MaxFail calls of malloc or calloc return NULL. *)
(* A search that lost its way to the winning grid goes on to every grid it  *)
(* can reach; the scenario follows it until MaxFailNodes frontier nodes     *)
(* have been allocated.                                                     *)
(***************************************************************************)
FailDist == 2       \* initial grids of the failure scenario
MaxFailNodes == 40  \* frontier nodes allocated in one run of the scenario

FailInit ==
  /\ pc = "call"
  /\ initial \in WithinDist(FailDist) \cup (Grids \ Solvable)
  /\ visited = {}
  /\ to_visit = NULL
  /\ queue = EmptyQueue
  /\ qnodes = <<>>
  /\ paths = <<>>
  /\ node = NULL
  /\ winning_path = NULL
  /\ i = 0
  /\ new_grid = 0
  /\ failsLeft = MaxFail
  /\ output = NoOutput
  /\ pushedLog = <<>>
  /\ poppedLog = <<>>
  /\ tgrids = <<>>
  /\ tcells = <<>>
  /\ toutcome = "none"

FailNext ==
  \/ StartSearch
  \/ Len(qnodes) < MaxFailNodes /\ Dequeue
  \/ Len(qnodes) < MaxFailNodes /\ ExpandCell
  \/ Len(qnodes) < MaxFailNodes /\ FreeNode
  \/ Drain
  \/ Report

FailSpec == FailInit /\ [][FailNext]_vars

\* a frontier node of a child grid: every node but the seed of line 327
ChildEntries == 2 .. Len(qnodes)

\* C17: when the allocation of a path node may fail, no frontier node pairs
\* a child grid with the empty path, and every path the solver returns
\* replays from the initial grid, on stars only, to the winning grid
C17_NoNullPath ==
  /\ \A n \in ChildEntries : qnodes[n].path # NULL
  /\ (Returned /\ winning_path # NULL) =>
       (ReplayLegal(initial, ResultMoves)
          /\ ReplayEnd(initial, ResultMoves) = winning_grid)

\* C18: when the allocation of a frontier node may fail, every path node
\* allocated during the search is freed by the time the solver has returned
\* and the caller has dropped the result
C18_FreedAfterFailure ==
  pc = "exit" => \A n \in 1 .. Len(paths) : paths[n].freed

\* the sequences of d legal moves that lead from g to the winning grid
WinningSeqs(g, d) ==
  {s \in [1 .. d -> Cells] :
     ReplayLegal(g, s) /\ ReplayEnd(g, s) = winning_grid}

\* s comes before t, or is t, in the order by cell number of two sequences
\* of one length
LexLeq(s, t) ==
  \A k \in 1 .. Len(s) :
    (\A j \in 1 .. k - 1 : s[j] = t[j]) => s[k] <= t[k]

\* C19: for an initial grid with a solution, the returned moves, in play
\* order, are a winning sequence of minimum length and come first, by cell
\* number, among all winning sequences of that length
C19_LexSmallest ==
  (Returned /\ Dist(initial) >= 0) =>
    /\ ResultMoves \in WinningSeqs(initial, Dist(initial))
    /\ \A s \in WinningSeqs(initial, Dist(initial)) : LexLeq(ResultMoves, s)

C19_Witness ==
  /\ Returned
  /\ Dist(initial) >= 2
  /\ Cardinality(WinningSeqs(initial, Dist(initial))) >= 2
  /\ \E s \in WinningSeqs(initial, Dist(initial)) : s[1] # ResultMoves[1]

\* C20: with every allocation succeeding, an allocated path node has a
\* reference count of at least 1 that equals the number of its direct
\* holders (allocated frontier nodes whose path it is, allocated path nodes
\* whose rest it is, and the captured result); a freed path node has no
\* holder left and its count, 0 when it was freed, is not touched again
C20_RefCountSound ==
  LET direct == DirectHolders
  IN \A n \in 1 .. Len(paths) :
       IF paths[n].freed
       THEN paths[n].references = 0 /\ direct[n] = 0
       ELSE paths[n].references >= 1 /\ paths[n].references = direct[n]

\* a node was freed and the node after it stays, held by two others
C20_Witness ==
  \E m \in 1 .. Len(paths) :
    /\ paths[m].freed
    /\ paths[m].rest # NULL
    /\ ~paths[paths[m].rest].freed
    /\ paths[paths[m].rest].references >= 2

====
